---- MODULE Spec2Model ----
(***************************************************************************)
(* fastapi-mini-bank: the account ledger and the transaction processor.    *)
(*                                                                         *)
(* The durable store holds two tables, accounts and transactions.  Every   *)
(* HTTP request works on a database session of its own; what it has read   *)
(* stays in the session (req[r]) until the request commits or the session  *)
(* is closed.  Requests are served by several workers, so the read of one  *)
(* request and the commit of another interleave freely.                    *)
(*                                                                         *)
(* Amounts and balances are whole currency units.                          *)
(*                                                                         *)
(* The session registry (ConnectionManager) lives in the memory of one     *)
(* worker process: its coroutines run on one event loop and give way to    *)
(* each other only at an await.  Spec is the ledger seen by several        *)
(* workers, none of which holds a websocket session; SpecReg is one worker *)
(* with its sessions, its notifier and its requests.                       *)
(***************************************************************************)
EXTENDS Integers, Sequences, FiniteSets, TLC

\* ---------------------------------------------------------------- bounds
\* Requests accepted over a run.
MaxOps == 3

\* Requests accepted over a run of the worker that holds the sessions.
RegOps == 2

\* Texts a client sends on one websocket.
MaxTexts == 2

\* transactions.py line 91: `if transaction.amount > 10000`
LargeThreshold == 10000

\* User identities (users.id), resolved by the identity verifier.
Users == {1, 2}
\* Request slots: the requests that can be in flight at the same time.
Reqs == {1, 2}
\* Amounts a request carries: TransactionCreate.amount is any Decimal.
Amounts == {-5, 0, 5, 15000}

\* schemas/account.py AccountCreate: account_type is any string, currency
\* any string with default "USD".  DefaultBody is the body of the tests.
DefaultBody == [account_type |-> "savings", currency |-> "USD"]
AccountBodies == {DefaultBody, [account_type |-> "checking", currency |-> "EUR"]}

\* Websocket handles: each is one connection attempt of a client, numbered
\* in the order the attempts are made.
Sessions == {1, 2}
\* What a client presents at /ws: a token that decodes or not, and its "sub"
\* (0: no sub claim; 3: the name of no user).
Tokens == {[signed |-> TRUE, sub |-> 1], [signed |-> TRUE, sub |-> 2],
           [signed |-> FALSE, sub |-> 1], [signed |-> TRUE, sub |-> 0],
           [signed |-> TRUE, sub |-> 3]}

\* Texts a client sends on its websocket.
Texts == {"ping", "hello"}

\* models/transaction.py TransactionType
TransactionType == {"deposit", "withdrawal", "transfer"}

VARIABLES
    accounts,      \* table accounts: row i has id i
    transactions,  \* table transactions: row i has id i
    req,           \* per request slot: position and session state
    sent,          \* envelopes handed to manager.send_personal_message, in order
    jobs,          \* compliance jobs accepted by the broker
    ops,           \* create_account and create_transaction requests accepted so far
    active_connections,  \* ConnectionManager.active_connections: user id -> list
    all_connections,     \* ConnectionManager.all_connections: set
    ws,            \* per websocket: its endpoint task and its client
    inbox,         \* per websocket: the messages its client has received
    bc             \* the task that runs ConnectionManager.broadcast

regvars == <<active_connections, all_connections, ws, inbox, bc>>

vars == <<accounts, transactions, req, sent, jobs, ops,
          active_connections, all_connections, ws, inbox, bc>>

\* ------------------------------------------------------------- helpers
Min(S) == CHOOSE x \in S : \A y \in S : x <= y

\* A free request slot.  seq numbers the requests in the order they arrive.
\* body is the body of a create_account, target the id in the path of a
\* read by id, result the rows that the response carries.
\* phase, it, disconnected and orphan are the locals of the
\* send_personal_message call the request is in: the notification it sends,
\* the position of the list iterator, the connections whose send failed,
\* and whether the list object it iterates has been dropped from the
\* registry.  first and start record the list at the start of the
\* request's first call and of its current call, tried the connections the
\* current call has sent to.
Idle == [pc |-> "idle", seq |-> 0, kind |-> "none", user |-> 0, ttype |-> "none",
         amount |-> 0, account |-> 0, old_balance |-> 0, balance |-> 0,
         txid |-> 0, status |-> 0,
         body |-> DefaultBody, target |-> 0, result |-> <<>>,
         phase |-> "none", it |-> 0, disconnected |-> <<>>, orphan |-> FALSE,
         first |-> <<>>, start |-> <<>>, tried |-> {}]

\* A websocket no client has opened yet.  user 0 is None (the public
\* endpoint); alive is FALSE once the client has gone; recv counts the
\* texts the endpoint has received and last is the latest of them.
NoSocket == [state |-> "new", endpoint |-> "none",
             token |-> [signed |-> FALSE, sub |-> 0], user |-> 0, alive |-> TRUE,
             recv |-> 0, last |-> "none"]

\* A lookup that does not filter on the user.
AccountOfAny(tbl, user) == IF tbl = <<>> THEN 0 ELSE 1

\* db.query(Account).filter(Account.user_id == user).first(): the id, 0 for None
AccountOf(tbl, user) ==
    LET S == {i \in 1..Len(tbl) : tbl[i].user_id = user}
    IN  IF S = {} THEN 0 ELSE Min(S)

\* Mutant of HasAccount: the existence check is left out.
HasAccountNever(tbl, user) == FALSE

\* accounts.py line 22-24: `if existing_account`
HasAccount(tbl, user) == AccountOf(tbl, user) # 0

\* Mutant of InsufficientFunds: only an empty account rejects a withdrawal.
InsufficientFundsEmptyOnly(ttype, balance, amount) ==
    ttype = "withdrawal" /\ balance <= 0

\* Mutant of InsufficientFunds: a withdrawal of the whole balance is refused.
InsufficientFundsAtBalance(ttype, balance, amount) ==
    ttype = "withdrawal" /\ balance <= amount

\* Mutant of InsufficientFunds: no withdrawal is refused.
InsufficientFundsNever(ttype, balance, amount) == FALSE

\* transactions.py line 53-54: the withdrawal guard
InsufficientFunds(ttype, balance, amount) ==
    ttype = "withdrawal" /\ balance < amount

\* Mutant of NewBalance: the withdrawal branch forgets the subtraction.
NewBalanceDepositOnly(ttype, balance, amount) ==
    IF ttype = "deposit" THEN balance + amount ELSE balance

\* transactions.py line 51-59: the balance the session holds after the branch
NewBalance(ttype, balance, amount) ==
    IF ttype = "deposit" THEN balance + amount
    ELSE IF ttype = "withdrawal" THEN balance - amount
    ELSE balance

\* A close that takes the last committed row with it.
CloseSessionDropsLast(tbl, pending) == SubSeq(tbl, 1, Len(tbl) - 1)

\* The session is closed without a commit (get_db's finally: db.close()):
\* the pending row added by db.add is discarded.
CloseSession(tbl, pending) == tbl

\* Mutant of WriteBalance: the commit writes the row but not the balance.
WriteBalanceSkipped(tbl, id, old, new) == tbl

\* An UPDATE with no WHERE clause: every account gets the balance.
WriteBalanceAll(tbl, id, old, new) ==
    [i \in 1..Len(tbl) |-> [tbl[i] EXCEPT !.balance = new]]

\* db.commit() flushes UPDATE accounts SET balance = <session value> for a
\* balance attribute whose value changed in the session; an unchanged
\* attribute produces no UPDATE.
WriteBalance(tbl, id, old, new) ==
    IF new = old THEN tbl ELSE [tbl EXCEPT ![id].balance = new]

\* Mutant of AccountUniqueViolation: user_id is not declared unique.
AccountNumberUniqueOnly(tbl, row) ==
    \E i \in 1..Len(tbl) : tbl[i].account_number = row.account_number

\* models/account.py: user_id unique, account_number unique
AccountUniqueViolation(tbl, row) ==
    \E i \in 1..Len(tbl) :
        tbl[i].user_id = row.user_id \/ tbl[i].account_number = row.account_number

\* A reference_number column that is not declared unique.
ReferenceUniqueViolationNever(tbl, row) == FALSE

\* models/transaction.py: reference_number unique
ReferenceUniqueViolation(tbl, row) ==
    \E i \in 1..Len(tbl) : tbl[i].reference_number = row.reference_number

\* uuid.uuid4().hex[:k]: the generated number is compared only for equality,
\* so the draw is either a number some row of the table already carries or a
\* new one; the new one is named after the row it will become.
Uuid4(tbl, field) == {tbl[i][field] : i \in 1..Len(tbl)} \cup {Len(tbl) + 1}

\* A request that has returned with an HTTP status.  Its slot keeps the
\* outcome until the next request takes the slot.
Done(q, code) == [q EXCEPT !.pc = "done", !.status = code]

\* A slot that can take a new request.
Free(r) == req[r].pc \in {"idle", "done"}

\* ------------------------------------------------------ read handlers
\* A row of a table as a response carries it: with its id.
WithId(tbl, i) == [id |-> i] @@ tbl[i]

\* The offset and limit of get_transactions: the defaults (skip 0, limit
\* 100) and a second page of one row.
Pages == {<<0, 100>>, <<1, 1>>}

\* Query.offset(skip).limit(limit).all() on the rows in the order of their ids.
OffsetLimit(rows, skip, limit) ==
    SubSeq(rows, skip + 1, IF Len(rows) < skip + limit THEN Len(rows) ELSE skip + limit)

\* A lookup that returns the first account of the table.
GetMyAccountResultFirst(accts, user) ==
    IF accts = <<>> THEN [status |-> 404, result |-> <<>>]
    ELSE [status |-> 200, result |-> <<WithId(accts, 1)>>]

\* accounts.py line 65-79, get_my_account
GetMyAccountResult(accts, user) ==
    LET acc == AccountOf(accts, user)
    IN  IF acc = 0 THEN [status |-> 404, result |-> <<>>]
        ELSE [status |-> 200, result |-> <<WithId(accts, acc)>>]

\* An ownership check that is left out.
GetAccountResultUnchecked(accts, id, user) ==
    IF id \notin 1..Len(accts) THEN [status |-> 404, result |-> <<>>]
    ELSE [status |-> 200, result |-> <<WithId(accts, id)>>]

\* accounts.py line 82-104, get_account
GetAccountResult(accts, id, user) ==
    IF id \notin 1..Len(accts) THEN [status |-> 404, result |-> <<>>]
    ELSE IF accts[id].user_id # user THEN [status |-> 403, result |-> <<>>]
    ELSE [status |-> 200, result |-> <<WithId(accts, id)>>]

\* transactions.py line 108-129, get_transactions
GetTransactionsResult(accts, txns, user, page) ==
    LET acc == AccountOf(accts, user)
        rows == SelectSeq([i \in 1..Len(txns) |-> WithId(txns, i)],
                          LAMBDA row : row.account_id = acc)
    IN  IF acc = 0 THEN [status |-> 404, result |-> <<>>]
        ELSE [status |-> 200, result |-> OffsetLimit(rows, page[1], page[2])]

\* An ownership check that only asks whether the caller has an account.
GetTransactionResultAnyAccount(accts, txns, id, user) ==
    IF id \notin 1..Len(txns) THEN [status |-> 404, result |-> <<>>]
    ELSE IF AccountOf(accts, user) = 0 THEN [status |-> 403, result |-> <<>>]
    ELSE [status |-> 200, result |-> <<WithId(txns, id)>>]

\* transactions.py line 132-156, get_transaction
GetTransactionResult(accts, txns, id, user) ==
    LET acc == AccountOf(accts, user)
    IN  IF id \notin 1..Len(txns) THEN [status |-> 404, result |-> <<>>]
        ELSE IF acc = 0 \/ txns[id].account_id # acc
        THEN [status |-> 403, result |-> <<>>]
        ELSE [status |-> 200, result |-> <<WithId(txns, id)>>]

\* ------------------------------------------------ ConnectionManager
\* The elements of a list.
Range(l) == {l[i] : i \in 1..Len(l)}

\* list.remove(x) on a list that holds x: the first occurrence goes.
RemoveFirst(l, x) ==
    LET k == Min({i \in 1..Len(l) : l[i] = x})
    IN  SubSeq(l, 1, k - 1) \o SubSeq(l, k + 1, Len(l))

\* A connect that files every socket under identity 1.
ConnectUnderOne(active, s, user) ==
    [u \in DOMAIN active \cup {1} |->
        IF u # 1 THEN active[u]
        ELSE IF 1 \in DOMAIN active THEN Append(active[1], s)
        ELSE <<s>>]

\* websocket.py line 19-24 of connect, after the accept: with a user id the
\* socket is appended to the user's list, which is created when absent.
\* user 0 is None.
Connect(active, s, user) ==
    IF user = 0 THEN active
    ELSE [u \in DOMAIN active \cup {user} |->
             IF u # user THEN active[u]
             ELSE IF user \in DOMAIN active THEN Append(active[user], s)
             ELSE <<s>>]

\* An entry whose list is never dropped.
DropIfEmptyNever(active, user) == active

\* websocket.py line 31-33: the entry of a user whose list is empty is deleted.
DropIfEmpty(active, user) ==
    IF active[user] = <<>>
    THEN [u \in DOMAIN active \ {user} |-> active[u]]
    ELSE active

\* websocket.py line 26-33, disconnect(websocket, user_id): the socket is
\* discarded from all_connections; if the user has an entry the socket is
\* removed from its list, and list.remove raises ValueError when the socket
\* is not in it.
Disconnect(active, all, s, user) ==
    IF user # 0 /\ user \in DOMAIN active
    THEN IF s \in Range(active[user])
         THEN [active |-> DropIfEmpty([active EXCEPT ![user] = RemoveFirst(@, s)], user),
               all |-> all \ {s}, raised |-> FALSE]
         ELSE [active |-> active, all |-> all \ {s}, raised |-> TRUE]
    ELSE [active |-> active, all |-> all \ {s}, raised |-> FALSE]

\* websocket.py line 48-50: disconnect for each connection whose send failed,
\* in the order they failed; the loop ends at the first exception.
RECURSIVE Cleanup(_, _, _, _)
Cleanup(active, all, disconnected, user) ==
    IF disconnected = <<>>
    THEN [active |-> active, all |-> all, raised |-> FALSE]
    ELSE LET d == Disconnect(active, all, Head(disconnected), user)
         IN  IF d.raised THEN d
             ELSE Cleanup(d.active, d.all, Tail(disconnected), user)

\* A token that is accepted without its signature being verified.
GetUserFromTokenUnverified(token) ==
    IF token.sub \in Users THEN token.sub ELSE 0

\* api/v1/websocket.py line 13-27, get_user_from_token: the user id, 0 when
\* WebSocketException is raised (the token does not decode, has no sub, or
\* names no user).
GetUserFromToken(token) ==
    IF ~ token.signed THEN 0
    ELSE IF token.sub = 0 THEN 0
    ELSE IF token.sub \notin Users THEN 0
    ELSE token.sub

\* websocket.py line 75-79, get_active_connections_count
GetActiveConnectionsCount(active, all, user) ==
    IF user # 0
    THEN IF user \in DOMAIN active THEN Len(active[user]) ELSE 0
    ELSE Cardinality(all)

\* api/v1/websocket.py line 128-134, get_connection_stats
GetConnectionStats ==
    [total_connections |-> GetActiveConnectionsCount(active_connections, all_connections, 0),
     users_connected |-> Cardinality(DOMAIN active_connections)]

\* The envelope that the request in q sends in the given phase
\* (accounts.py line 46-60, transactions.py line 67-88 and 95-103).
Envelope(q, phase) ==
    IF phase = "account"
    THEN [user |-> q.user, event |-> "account_created", id |-> q.account,
          old_balance |-> 0, new_balance |-> 0]
    ELSE IF phase = "created"
    THEN [user |-> q.user, event |-> "transaction_created", id |-> q.txid,
          old_balance |-> q.old_balance,
          new_balance |-> accounts[q.account].balance]
    ELSE [user |-> q.user, event |-> "large_transaction_processing",
          id |-> q.txid, old_balance |-> 0, new_balance |-> 0]

\* The list object that the for loop of the request in q iterates
\* (websocket.py line 41): the user's list, or a list that has been emptied
\* and dropped from the registry since the loop began.
Iterated(q) ==
    IF q.orphan \/ q.user \notin DOMAIN active_connections THEN <<>>
    ELSE active_connections[q.user]

\* The requests whose loop iterates the list of a user: when the list is
\* dropped from the registry they keep the dropped (empty) object, and a
\* later connect makes a new one.
MarkOrphans(rq, active) ==
    [r \in Reqs |->
        IF rq[r].pc = "sending" /\ rq[r].user \notin DOMAIN active
        THEN [rq[r] EXCEPT !.orphan = TRUE]
        ELSE rq[r]]

\* ---------------------------------------------------------------- Init
Init ==
    /\ accounts = <<>>
    /\ transactions = <<>>
    /\ req = [r \in Reqs |-> Idle]
    /\ sent = <<>>
    /\ jobs = {}
    /\ ops = 0
    /\ active_connections = <<>>
    /\ all_connections = {}
    /\ ws = [s \in Sessions |-> NoSocket]
    /\ inbox = [s \in Sessions |-> <<>>]
    /\ bc = [pc |-> "idle", todo |-> {}, disconnected |-> {}]

\* ------------------------------------------------------ create_account
\* accounts.py line 14-28: the request arrives with one of the bodies, the
\* existence check runs.
AcctCheckOf(r, bodies) ==
    /\ Free(r)
    /\ ops < MaxOps
    /\ \E u \in Users, b \in bodies :
        LET q == [Idle EXCEPT !.seq = ops + 1, !.kind = "acct", !.user = u,
                              !.body = b]
        IN  req' = [req EXCEPT ![r] =
                IF HasAccount(accounts, u)
                THEN Done(q, 400)
                ELSE [q EXCEPT !.pc = "commit"]]
    /\ ops' = ops + 1
    /\ UNCHANGED <<accounts, transactions, sent, jobs>>
    /\ UNCHANGED regvars

\* create_account with the body of the tests.
AcctCheck(r) == AcctCheckOf(r, {DefaultBody})

\* accounts.py line 30-43: number generation, db.add, db.commit, db.refresh.
AcctCommit(r) ==
    /\ req[r].pc = "commit"
    /\ req[r].kind = "acct"
    /\ \E n \in Uuid4(accounts, "account_number") :
        LET row == [user_id |-> req[r].user, account_number |-> n, balance |-> 0,
                    account_type |-> req[r].body.account_type,
                    currency |-> req[r].body.currency]
        IN  IF AccountUniqueViolation(accounts, row)
            THEN /\ req' = [req EXCEPT ![r] = Done(@, 500)]
                 /\ accounts' = accounts
            ELSE /\ accounts' = Append(accounts, row)
                 /\ req' = [req EXCEPT ![r] =
                        [@ EXCEPT !.pc = "notify", !.account = Len(accounts) + 1,
                                  !.result = <<[id |-> Len(accounts) + 1] @@ row>>]]
    /\ UNCHANGED <<transactions, sent, jobs, ops>>
    /\ UNCHANGED regvars

\* accounts.py line 45-62: the account_created notification, then the return.
\* The identity has no connection: send_personal_message returns at once
\* (websocket.py line 37).
AcctNotify(r) ==
    /\ req[r].pc = "notify"
    /\ req[r].kind = "acct"
    /\ req[r].user \notin DOMAIN active_connections
    /\ sent' = Append(sent, [user |-> req[r].user, event |-> "account_created",
                             id |-> req[r].account,
                             old_balance |-> 0, new_balance |-> 0])
    /\ req' = [req EXCEPT ![r] = Done(@, 201)]
    /\ UNCHANGED <<accounts, transactions, jobs, ops>>
    /\ UNCHANGED regvars

\* -------------------------------------------------- create_transaction
\* transactions.py line 18-59: the account lookup, the old balance, db.add of
\* the new row, and the balance branch.
TxnRead(r) ==
    /\ Free(r)
    /\ ops < MaxOps
    /\ \E u \in Users, t \in TransactionType, a \in Amounts :
        LET acc == AccountOf(accounts, u)
            q   == [Idle EXCEPT !.seq = ops + 1, !.kind = "txn", !.user = u,
                                !.ttype = t, !.amount = a, !.account = acc]
        IN  IF acc = 0
            THEN /\ req' = [req EXCEPT ![r] = Done(q, 404)]
                 /\ transactions' = transactions
            ELSE LET bal == accounts[acc].balance
                     qb  == [q EXCEPT !.old_balance = bal]
                     row == [account_id |-> acc, ttype |-> t, amount |-> a,
                             reference_number |-> 0]
                 IN  IF InsufficientFunds(t, bal, a)
                     THEN /\ req' = [req EXCEPT ![r] = Done(qb, 400)]
                          /\ transactions' = CloseSession(transactions, row)
                     ELSE /\ req' = [req EXCEPT ![r] =
                                [qb EXCEPT !.pc = "commit",
                                           !.balance = NewBalance(t, bal, a)]]
                          /\ transactions' = transactions
    /\ ops' = ops + 1
    /\ UNCHANGED <<accounts, sent, jobs>>
    /\ UNCHANGED regvars

\* transactions.py line 61-62: db.commit() writes the new row and the
\* balance in one database transaction, or fails as a whole.
TxnCommit(r) ==
    /\ req[r].pc = "commit"
    /\ req[r].kind = "txn"
    /\ \E n \in Uuid4(transactions, "reference_number") :
        LET row == [account_id |-> req[r].account, ttype |-> req[r].ttype,
                    amount |-> req[r].amount, reference_number |-> n]
        IN  IF ReferenceUniqueViolation(transactions, row)
            THEN /\ req' = [req EXCEPT ![r] = Done(@, 500)]
                 /\ UNCHANGED <<accounts, transactions>>
            ELSE /\ transactions' = Append(transactions, row)
                 /\ accounts' = WriteBalance(accounts, req[r].account,
                                             req[r].old_balance, req[r].balance)
                 /\ req' = [req EXCEPT ![r] =
                        [@ EXCEPT !.pc = "notify", !.txid = Len(transactions) + 1]]
    /\ UNCHANGED <<sent, jobs, ops>>
    /\ UNCHANGED regvars

\* transactions.py line 64-91: the balance is loaded again after the commit,
\* the transaction_created envelope is sent, the threshold is tested.  The
\* identity has no connection: send_personal_message returns at once.
TxnNotify(r) ==
    /\ req[r].pc = "notify"
    /\ req[r].kind = "txn"
    /\ req[r].user \notin DOMAIN active_connections
    /\ sent' = Append(sent, [user |-> req[r].user, event |-> "transaction_created",
                             id |-> req[r].txid,
                             old_balance |-> req[r].old_balance,
                             new_balance |-> accounts[req[r].account].balance])
    /\ req' = [req EXCEPT ![r] =
            IF req[r].amount > LargeThreshold
            THEN [@ EXCEPT !.pc = "enqueue"]
            ELSE Done(@, 201)]
    /\ UNCHANGED <<accounts, transactions, jobs, ops>>
    /\ UNCHANGED regvars

\* transactions.py line 92: process_large_transaction.delay(...).  The broker
\* accepts the job, or the publish raises and the exception leaves the
\* handler.
TxnEnqueue(r) ==
    /\ req[r].pc = "enqueue"
    /\ \E accepted \in BOOLEAN :
        IF accepted
        THEN /\ jobs' = jobs \cup {[transaction_id |-> req[r].txid,
                                    amount |-> req[r].amount]}
             /\ req' = [req EXCEPT ![r] = [@ EXCEPT !.pc = "notify_large"]]
        ELSE /\ jobs' = jobs
             /\ req' = [req EXCEPT ![r] = Done(@, 500)]
    /\ UNCHANGED <<accounts, transactions, sent, ops>>
    /\ UNCHANGED regvars

\* transactions.py line 94-105: the large_transaction_processing envelope,
\* then the return.  The identity has no connection.
TxnNotifyLarge(r) ==
    /\ req[r].pc = "notify_large"
    /\ req[r].user \notin DOMAIN active_connections
    /\ sent' = Append(sent, [user |-> req[r].user,
                             event |-> "large_transaction_processing",
                             id |-> req[r].txid,
                             old_balance |-> 0, new_balance |-> 0])
    /\ req' = [req EXCEPT ![r] = Done(@, 201)]
    /\ UNCHANGED <<accounts, transactions, jobs, ops>>
    /\ UNCHANGED regvars

\* -------------------------------------------------------- the reads
\* A read is one request: it arrives, queries and returns.  It writes
\* nothing, and it is not counted in ops.
Read(r, kind, user, target, resp) ==
    /\ Free(r)
    /\ req' = [req EXCEPT ![r] =
            Done([Idle EXCEPT !.kind = kind, !.user = user,
                              !.target = target, !.result = resp.result],
                 resp.status)]
    /\ UNCHANGED <<accounts, transactions, sent, jobs, ops>>
    /\ UNCHANGED regvars

\* accounts.py line 65-79
GetMyAccount(r) ==
    \E u \in Users :
        Read(r, "get_my_account", u, 0, GetMyAccountResult(accounts, u))

\* accounts.py line 82-104: the id is one of a row or one of no row.
GetAccount(r) ==
    \E u \in Users, id \in 1..(Len(accounts) + 1) :
        Read(r, "get_account", u, id, GetAccountResult(accounts, id, u))

\* transactions.py line 108-129
GetTransactions(r) ==
    \E u \in Users, page \in Pages :
        Read(r, "get_transactions", u, 0,
             GetTransactionsResult(accounts, transactions, u, page))

\* transactions.py line 132-156: the id is one of a row or one of no row.
GetTransaction(r) ==
    \E u \in Users, id \in 1..(Len(transactions) + 1) :
        Read(r, "get_transaction", u, id,
             GetTransactionResult(accounts, transactions, id, u))

\* ------------------------------------------- send_personal_message
\* The notification that a request at a call of send_personal_message sends.
PhaseOf(q) ==
    IF q.pc = "notify_large" THEN "large"
    ELSE IF q.kind = "acct" THEN "account" ELSE "created"

\* websocket.py line 42-46: one turn of the for loop, up to the await of
\* send_json.  The send reaches the client, or it raises because the client
\* has gone and the connection is noted in disconnected.
SendTo(q, c) ==
    [q EXCEPT !.pc = "sending",
              !.it = @ + 1,
              !.tried = @ \cup {c},
              !.disconnected = IF ws[c].alive THEN @ ELSE Append(@, c)]

\* What the client of connection c has received after a send of msg to c.
Deliver(c, msg) ==
    IF ws[c].alive
    THEN [inbox EXCEPT ![c] = Append(@, [event |-> msg.event, id |-> msg.id])]
    ELSE inbox

\* The call of send_personal_message for a user who has connections
\* (accounts.py line 46, transactions.py line 67 and 95; websocket.py line
\* 37-43): the message is formatted and the first connection of the list is
\* sent to, with no await in between.
SendBegin(r) ==
    /\ req[r].pc \in {"notify", "notify_large"}
    /\ req[r].user \in DOMAIN active_connections
    /\ LET phase == PhaseOf(req[r])
           list == active_connections[req[r].user]
           msg == Envelope(req[r], phase)
           q == [req[r] EXCEPT !.phase = phase, !.it = 0, !.disconnected = <<>>,
                               !.orphan = FALSE, !.tried = {},
                               !.start = list,
                               !.first = IF phase = "large" THEN @ ELSE list]
       IN  /\ sent' = Append(sent, msg)
           /\ req' = [req EXCEPT ![r] = SendTo(q, list[1])]
           /\ inbox' = Deliver(list[1], msg)
    /\ UNCHANGED <<accounts, transactions, jobs, ops>>
    /\ UNCHANGED <<active_connections, all_connections, ws, bc>>

\* websocket.py line 41-46: the send_json has returned; the list iterator
\* yields the element at its index in the list as it is now.
SendNext(r) ==
    /\ req[r].pc = "sending"
    /\ req[r].it < Len(Iterated(req[r]))
    /\ LET c == Iterated(req[r])[req[r].it + 1]
       IN  /\ req' = [req EXCEPT ![r] = SendTo(@, c)]
           /\ inbox' = Deliver(c, Envelope(req[r], req[r].phase))
    /\ UNCHANGED <<accounts, transactions, sent, jobs, ops>>
    /\ UNCHANGED <<active_connections, all_connections, ws, bc>>

\* The locals of a call of send_personal_message are gone when it returns.
Returned(q) ==
    [q EXCEPT !.it = 0, !.disconnected = <<>>, !.orphan = FALSE,
              !.start = <<>>, !.tried = {}]

\* What the handler does after a call of send_personal_message has returned
\* (accounts.py line 62; transactions.py line 91 and 105).
AfterSend(q) ==
    IF q.phase = "created" /\ q.amount > LargeThreshold
    THEN [q EXCEPT !.pc = "enqueue"]
    ELSE Done(q, 201)

\* websocket.py line 41 and 48-50: the iterator is exhausted, the failed
\* connections are disconnected and the call returns; a ValueError of
\* list.remove leaves the call and the handler.
SendEnd(r) ==
    /\ req[r].pc = "sending"
    /\ req[r].it >= Len(Iterated(req[r]))
    /\ LET d == Cleanup(active_connections, all_connections,
                        req[r].disconnected, req[r].user)
       IN  /\ active_connections' = d.active
           /\ all_connections' = d.all
           /\ req' = [MarkOrphans(req, d.active) EXCEPT ![r] =
                   IF d.raised THEN Done(Returned(req[r]), 500)
                   ELSE AfterSend(Returned(req[r]))]
    /\ UNCHANGED <<accounts, transactions, sent, jobs, ops>>
    /\ UNCHANGED <<ws, inbox, bc>>

\* ------------------------------------------------ websocket endpoints
\* api/v1/websocket.py line 46-55 and 101: a client opens /ws with a token
\* or /ws/public.  A token that get_user_from_token refuses has the socket
\* closed with 1008; otherwise connect awaits the accept.
WsOpen(s) ==
    /\ ws[s].state = "new"
    /\ \A t \in Sessions : t < s => ws[t].state # "new"
    /\ \/ \E token \in Tokens :
            LET user == GetUserFromToken(token)
            IN  ws' = [ws EXCEPT ![s] =
                    [@ EXCEPT !.endpoint = "private", !.token = token,
                              !.user = user,
                              !.state = IF user = 0 THEN "rejected"
                                        ELSE "accepting"]]
       \/ ws' = [ws EXCEPT ![s] =
                    [@ EXCEPT !.endpoint = "public", !.state = "accepting"]]
    /\ UNCHANGED <<accounts, transactions, req, sent, jobs, ops>>
    /\ UNCHANGED <<active_connections, all_connections, inbox, bc>>

\* websocket.py line 18-24 and api/v1/websocket.py line 57-63, 103-107: the
\* accept has returned, the socket is registered and the welcome is sent.
\* When the client has gone, the accept raises and nothing is registered, or
\* the welcome raises, outside the try of the endpoint, and the socket stays
\* registered.
WsRegister(s) ==
    /\ ws[s].state = "accepting"
    /\ \E accepted \in BOOLEAN :
        /\ ws[s].alive => accepted
        /\ IF accepted
           THEN /\ all_connections' = all_connections \cup {s}
                /\ active_connections' = Connect(active_connections, s, ws[s].user)
                /\ inbox' = Deliver(s, [event |-> "connection", id |-> 0])
                /\ ws' = [ws EXCEPT ![s].state =
                            IF ws[s].alive THEN "open" ELSE "aborted"]
           ELSE /\ ws' = [ws EXCEPT ![s].state = "failed"]
                /\ UNCHANGED <<active_connections, all_connections, inbox>>
    /\ UNCHANGED <<accounts, transactions, req, sent, jobs, ops, bc>>

\* The client of a socket goes away.
ClientDrop(s) ==
    /\ ws[s].state \in {"accepting", "open"}
    /\ ws[s].alive
    /\ ws' = [ws EXCEPT ![s].alive = FALSE]
    /\ UNCHANGED <<accounts, transactions, req, sent, jobs, ops>>
    /\ UNCHANGED <<active_connections, all_connections, inbox, bc>>

\* api/v1/websocket.py line 83-88 and 120-125: receive_text raises
\* WebSocketDisconnect and the endpoint calls disconnect, with the user id
\* on /ws and without it on /ws/public; a ValueError leaves the endpoint.
WsDisconnect(s) ==
    /\ ws[s].state = "open"
    /\ ~ ws[s].alive
    /\ LET d == Disconnect(active_connections, all_connections, s, ws[s].user)
       IN  /\ active_connections' = d.active
           /\ all_connections' = d.all
           /\ req' = MarkOrphans(req, d.active)
           /\ ws' = [ws EXCEPT ![s].state = IF d.raised THEN "error" ELSE "closed"]
    /\ UNCHANGED <<accounts, transactions, sent, jobs, ops>>
    /\ UNCHANGED <<inbox, bc>>

\* A public endpoint that echoes like the authenticated one.
ReplyEchoAlways(endpoint, data) ==
    IF data = "ping"
    THEN <<[event |-> "pong", id |-> 0, text |-> <<"Connection is alive">>]>>
    ELSE <<[event |-> "echo", id |-> 0, text |-> <<"Received: ", data>>]>>

\* api/v1/websocket.py line 70-81 and 113-118: what the endpoint sends for
\* a received text: a pong for "ping"; for any other text an echo on /ws
\* and nothing on /ws/public.
Reply(endpoint, data) ==
    IF data = "ping"
    THEN <<[event |-> "pong", id |-> 0, text |-> <<"Connection is alive">>]>>
    ELSE IF endpoint = "private"
    THEN <<[event |-> "echo", id |-> 0, text |-> <<"Received: ", data>>]>>
    ELSE <<>>

\* api/v1/websocket.py line 65-81 and 110-118: receive_text returns a text
\* of the client and the endpoint sends its reply.  When the client goes
\* before the reply, send_json raises inside the try and the endpoint
\* will call disconnect.
WsReceive(s) ==
    /\ ws[s].state = "open"
    /\ ws[s].alive
    /\ ws[s].recv < MaxTexts
    /\ \E data \in Texts, there \in BOOLEAN :
        /\ ws' = [ws EXCEPT ![s].recv = @ + 1, ![s].last = data,
                            ![s].alive = there]
        /\ inbox' = IF there
                    THEN [inbox EXCEPT ![s] = @ \o Reply(ws[s].endpoint, data)]
                    ELSE inbox
    /\ UNCHANGED <<accounts, transactions, req, sent, jobs, ops>>
    /\ UNCHANGED <<active_connections, all_connections, bc>>

\* ----------------------------------------------------------- broadcast
\* websocket.py line 52-57: broadcast is called and iterates a copy of
\* all_connections.
BcBegin ==
    /\ bc.pc = "idle"
    /\ bc' = [pc |-> "sending", todo |-> all_connections, disconnected |-> {}]
    /\ UNCHANGED <<accounts, transactions, req, sent, jobs, ops>>
    /\ UNCHANGED <<active_connections, all_connections, ws, inbox>>

\* websocket.py line 57-62: one turn of the loop, in the order of the set.
BcSend ==
    /\ bc.pc = "sending"
    /\ \E c \in bc.todo :
        /\ inbox' = Deliver(c, [event |-> "broadcast", id |-> 0])
        /\ bc' = [bc EXCEPT !.todo = @ \ {c},
                            !.disconnected = IF ws[c].alive THEN @ ELSE @ \cup {c}]
    /\ UNCHANGED <<accounts, transactions, req, sent, jobs, ops>>
    /\ UNCHANGED <<active_connections, all_connections, ws>>

\* websocket.py line 64-66: the failed connections are discarded from
\* all_connections.
BcEnd ==
    /\ bc.pc = "sending"
    /\ bc.todo = {}
    /\ all_connections' = all_connections \ bc.disconnected
    /\ bc' = [bc EXCEPT !.pc = "done"]
    /\ UNCHANGED <<accounts, transactions, req, sent, jobs, ops>>
    /\ UNCHANGED <<active_connections, ws, inbox>>

\* ------------------------------------------------------- specifications
Next ==
    \E r \in Reqs :
        \/ AcctCheck(r)
        \/ AcctCommit(r)
        \/ AcctNotify(r)
        \/ TxnRead(r)
        \/ TxnCommit(r)
        \/ TxnNotify(r)
        \/ TxnEnqueue(r)
        \/ TxnNotifyLarge(r)

\* Requests of several workers interleave.
Spec == Init /\ [][Next]_vars

\* One request at a time: a request is accepted only when no other is in
\* flight.
NoneInFlight == \A r \in Reqs : Free(r)

NextSeq ==
    \E r \in Reqs :
        \/ NoneInFlight /\ AcctCheck(r)
        \/ AcctCommit(r)
        \/ AcctNotify(r)
        \/ NoneInFlight /\ TxnRead(r)
        \/ TxnCommit(r)
        \/ TxnNotify(r)
        \/ TxnEnqueue(r)
        \/ TxnNotifyLarge(r)

SpecSeq == Init /\ [][NextSeq]_vars

\* The ledger with its reads, one request at a time; create_account comes
\* with any of the bodies, create_transaction with a positive amount.
ReadTurn(r) == NoneInFlight /\ r = Min(Reqs)

NextRead ==
    \E r \in Reqs :
        \/ ReadTurn(r) /\ AcctCheckOf(r, AccountBodies)
        \/ AcctCommit(r)
        \/ AcctNotify(r)
        \/ ReadTurn(r) /\ TxnRead(r) /\ req'[r].amount > 0
        \/ TxnCommit(r)
        \/ TxnNotify(r)
        \/ TxnEnqueue(r)
        \/ TxnNotifyLarge(r)
        \/ ReadTurn(r) /\ GetMyAccount(r)
        \/ ReadTurn(r) /\ GetAccount(r)
        \/ ReadTurn(r) /\ GetTransactions(r)
        \/ ReadTurn(r) /\ GetTransaction(r)

SpecRead == Init /\ [][NextRead]_vars

\* One worker with its websocket sessions, as the application runs it.  The handlers are coroutines of
\* one event loop: the database calls and the enqueue do not await, so a
\* handler runs from its start to its first send_json, and from the return
\* of a send_json to the next one, with no other coroutine in between.
LoopBusy ==
    \E r \in Reqs : req[r].pc \in {"commit", "notify", "enqueue", "notify_large"}

\* The requests of SpecReg come one at a time.
RegTurn(r) ==
    /\ NoneInFlight
    /\ ops < RegOps
    /\ r = Min(Reqs)

\* The requests of SpecReg come from one user, who deposits an amount below
\* or above the threshold; the other inputs of the ledger are those of Spec.
RegInput(r) ==
    /\ req'[r].user = 1
    /\ req'[r].kind = "txn"
        => req'[r].ttype = "deposit" /\ req'[r].amount \in {5, 15000}

NextReg ==
    \/ \E r \in Reqs :
        \/ RegTurn(r) /\ AcctCheck(r) /\ RegInput(r)
        \/ AcctCommit(r)
        \/ AcctNotify(r)
        \/ RegTurn(r) /\ TxnRead(r) /\ RegInput(r)
        \/ TxnCommit(r)
        \/ TxnNotify(r)
        \/ TxnEnqueue(r)
        \/ TxnNotifyLarge(r)
        \/ SendBegin(r)
        \/ ~ LoopBusy /\ SendNext(r)
        \/ ~ LoopBusy /\ SendEnd(r)
    \/ \E s \in Sessions :
        /\ ~ LoopBusy
        /\ \/ WsOpen(s)
           \/ WsRegister(s)
           \/ ClientDrop(s)
           \/ WsDisconnect(s)

SpecReg == Init /\ [][NextReg]_vars

\* The websocket endpoints with their clients: handshake, keep-alive and
\* disconnect.
NextWs ==
    \E s \in Sessions :
        \/ WsOpen(s)
        \/ WsRegister(s)
        \/ WsReceive(s)
        \/ ClientDrop(s)
        \/ WsDisconnect(s)

SpecWs == Init /\ [][NextWs]_vars

\* The ConnectionManager with all its methods.  No endpoint of the
\* application calls broadcast; here a caller does, while sessions come and
\* go and create_account requests call send_personal_message.
NextBc ==
    \/ \E r \in Reqs :
        \/ RegTurn(r) /\ AcctCheck(r) /\ RegInput(r)
        \/ AcctCommit(r)
        \/ AcctNotify(r)
        \/ SendBegin(r)
        \/ ~ LoopBusy /\ SendNext(r)
        \/ ~ LoopBusy /\ SendEnd(r)
    \/ \E s \in Sessions :
        /\ ~ LoopBusy
        /\ \/ WsOpen(s)
           \/ WsRegister(s)
           \/ ClientDrop(s)
           \/ WsDisconnect(s)
    \/ ~ LoopBusy /\ BcBegin
    \/ ~ LoopBusy /\ BcSend
    \/ ~ LoopBusy /\ BcEnd

SpecBc == Init /\ [][NextBc]_vars

\* ---------------------------------------------------------------- claims
\* Sum of the amounts of the rows of tbl[1..n] on account id with type t.
RECURSIVE SumAmounts(_, _, _, _)
SumAmounts(tbl, n, id, t) ==
    IF n = 0 THEN 0
    ELSE SumAmounts(tbl, n - 1, id, t)
         + (IF tbl[n].account_id = id /\ tbl[n].ttype = t THEN tbl[n].amount ELSE 0)

\* The rows of the transactions table that belong to account id.
RowsOf(id) == {i \in 1..Len(transactions) : transactions[i].account_id = id}

\* C1: with requests served one at a time, the balance of every account is
\* the sum of its committed deposits minus the sum of its committed
\* withdrawals.
C1_BalanceIsDepositsMinusWithdrawals ==
    \A i \in 1..Len(accounts) :
        accounts[i].balance =
            SumAmounts(transactions, Len(transactions), i, "deposit")
            - SumAmounts(transactions, Len(transactions), i, "withdrawal")

\* C1 witness: an account with a committed deposit and a committed
\* withdrawal of a positive amount, and money left.
C1_Witness ==
    \E i \in 1..Len(accounts) :
        /\ \E d \in RowsOf(i) : transactions[d].ttype = "deposit"
        /\ \E w \in RowsOf(i) : /\ transactions[w].ttype = "withdrawal"
                               /\ transactions[w].amount > 0
        /\ accounts[i].balance > 0
        /\ NoneInFlight

\* C2: the committed balance of every account is never negative.
C2_BalanceNeverNegative ==
    \A i \in 1..Len(accounts) : accounts[i].balance >= 0

\* C3: with requests of several workers interleaving, once no request is in
\* flight the balance of every account is the serial sum of the deltas of
\* its committed transactions (+amount for a deposit, -amount for a
\* withdrawal): no update is lost.  Stated for runs whose committed amounts
\* are all positive.
C3_NoLostUpdate ==
    (/\ \A r \in Reqs : Free(r)
     /\ \A k \in 1..Len(transactions) : transactions[k].amount > 0) =>
        \A i \in 1..Len(accounts) :
            accounts[i].balance =
                SumAmounts(transactions, Len(transactions), i, "deposit")
                + SumAmounts(transactions, Len(transactions), i, "withdrawal") * (-1)

\* The step in which slot r accepts a create_transaction request.
TxnAccepted(r) == req'[r].seq = ops + 1 /\ req'[r].kind = "txn"

\* The step in which slot r accepts a create_account request.
AcctAccepted(r) == req'[r].seq = ops + 1 /\ req'[r].kind = "acct"

\* C4: a withdrawal whose amount exceeds the balance of the caller's account
\* returns 400 and leaves the accounts and the transactions tables as they
\* were.
C4_InsufficientFundsRejected ==
    [][\A r \in Reqs :
        (/\ TxnAccepted(r)
         /\ req'[r].ttype = "withdrawal"
         /\ req'[r].account # 0
         /\ req'[r].amount > accounts[req'[r].account].balance)
        => (/\ req'[r].pc = "done"
            /\ req'[r].status = 400
            /\ accounts' = accounts
            /\ transactions' = transactions)]_vars

\* C4 witness: a withdrawal above a positive balance was rejected while the
\* account already has history.
C4_Witness ==
    \E r \in Reqs :
        /\ req[r].kind = "txn" /\ req[r].ttype = "withdrawal"
        /\ req[r].pc = "done" /\ req[r].status = 400
        /\ req[r].old_balance > 0
        /\ req[r].amount > req[r].old_balance
        /\ RowsOf(req[r].account) # {}

\* C5: the transaction row and the balance update commit in one step: a
\* step adds a row only as the commit of a request, and that step also
\* stores the balance the request's session holds; a step changes a balance
\* only if it adds a row of that account.
C5_CommitIsAtomic ==
    [][/\ Len(transactions') # Len(transactions) =>
            \E r \in Reqs :
                /\ req[r].pc = "commit" /\ req[r].kind = "txn"
                /\ req'[r].pc = "notify"
                /\ transactions' = Append(transactions,
                        [account_id |-> req[r].account, ttype |-> req[r].ttype,
                         amount |-> req[r].amount,
                         reference_number |-> Len(transactions) + 1])
                /\ \/ accounts'[req[r].account].balance = req[r].balance
                   \/ /\ req[r].balance = req[r].old_balance
                      /\ accounts' = accounts
       /\ \A i \in 1..Len(accounts) :
            accounts'[i].balance # accounts[i].balance =>
                /\ Len(transactions') = Len(transactions) + 1
                /\ transactions'[Len(transactions')].account_id = i
      ]_vars

\* C5 witness: a deposit has committed: its row is in the table and the
\* balance is the one its session computed.
C5_Witness ==
    \E r \in Reqs :
        /\ req[r].kind = "txn" /\ req[r].pc = "notify"
        /\ req[r].ttype = "deposit" /\ req[r].amount > 0
        /\ transactions[req[r].txid].amount = req[r].amount
        /\ accounts[req[r].account].balance = req[r].balance

\* C6: a create_transaction with an amount of zero or less is rejected and
\* never commits a row.
C6_NonPositiveAmountRejected ==
    /\ \A r \in Reqs :
        (req[r].kind = "txn" /\ req[r].account # 0 /\ req[r].amount <= 0)
            => (req[r].pc = "done" /\ req[r].status \in {400, 422})
    /\ \A i \in 1..Len(transactions) : transactions[i].amount > 0

\* C7: a transfer is a debit: with an amount above the balance it returns
\* 400, otherwise the balance the request commits is the balance it read
\* minus the amount.
C7_TransferIsDebit ==
    \A r \in Reqs :
        (req[r].kind = "txn" /\ req[r].ttype = "transfer" /\ req[r].account # 0)
            => IF req[r].amount > req[r].old_balance
               THEN req[r].pc = "done" /\ req[r].status = 400
               ELSE req[r].pc = "commit" =>
                        req[r].balance = req[r].old_balance - req[r].amount

\* C8: create_account for an identity that has an account returns 400 and
\* leaves the accounts table as it was.
C8_DuplicateAccountRejected ==
    [][\A r \in Reqs :
        (/\ AcctAccepted(r)
         /\ \E i \in 1..Len(accounts) : accounts[i].user_id = req'[r].user)
        => (/\ req'[r].pc = "done"
            /\ req'[r].status = 400
            /\ accounts' = accounts)]_vars

\* C8 witness: a create_account was rejected with 400 while the identity's
\* account has a committed transaction.
C8_Witness ==
    \E r \in Reqs :
        /\ req[r].kind = "acct" /\ req[r].pc = "done" /\ req[r].status = 400
        /\ \E i \in 1..Len(accounts) :
            accounts[i].user_id = req[r].user /\ RowsOf(i) # {}

\* C9: no two rows of the accounts table belong to the same identity.
C9_OneAccountPerUser ==
    \A i, j \in 1..Len(accounts) :
        accounts[i].user_id = accounts[j].user_id => i = j

\* C9 witness: two create_account requests of one identity both passed the
\* existence check; one committed and the other failed at its commit.
C9_Witness ==
    \E r1, r2 \in Reqs :
        /\ r1 # r2
        /\ req[r1].kind = "acct" /\ req[r2].kind = "acct"
        /\ req[r1].user = req[r2].user
        /\ req[r1].pc = "notify"
        /\ req[r2].pc = "done" /\ req[r2].status = 500

\* C10: a create_transaction whose row has committed returns 201, also when
\* the compliance enqueue fails.
C10_EnqueueFailureNotSurfaced ==
    \A r \in Reqs :
        (req[r].kind = "txn" /\ req[r].pc = "done" /\ req[r].txid # 0)
            => req[r].status = 201

\* The request in slot r has returned an error to its caller.
ErrorReturned(r) ==
    /\ req[r].kind = "txn"
    /\ req[r].pc = "done"
    /\ req[r].status # 201

\* C11: whenever create_transaction returns an error to its caller, the
\* transaction did not take effect: the transactions table holds no record
\* written by that request, so a retry cannot apply the amount twice.
C11_ErrorMeansNoEffect ==
    \A r \in Reqs :
        ErrorReturned(r) => ~ \E i \in 1..Len(transactions) : i = req[r].txid

\* The transaction_created envelopes built so far.
CreatedEnvelopes ==
    {i \in 1..Len(sent) : sent[i].event = "transaction_created"}

\* The change of the balance that a deposit or a withdrawal of a row stands for.
SignedAmount(row) ==
    IF row.ttype = "deposit" THEN row.amount ELSE 0 - row.amount

\* C19: while only positive amounts are committed, the transaction_created
\* envelope of a deposit or a withdrawal carries the balance immediately
\* before and after that transaction: new_balance minus old_balance is
\* +amount for a deposit and -amount for a withdrawal.
C19_EnvelopeBalancesMatchAmount ==
    (\A j \in 1..Len(transactions) : transactions[j].amount > 0)
    => \A i \in CreatedEnvelopes :
          LET row == transactions[sent[i].id]
          IN  row.ttype \in {"deposit", "withdrawal"}
              => sent[i].new_balance - sent[i].old_balance = SignedAmount(row)

\* The request in slot r has returned after its commit, and its handler has
\* no step after the commit that can fail other than the notifications: a
\* create_account, or a create_transaction at or below the threshold.
ReturnedAfterNotifying(r) ==
    /\ req[r].pc = "done"
    /\ \/ req[r].kind = "acct" /\ req[r].account # 0
       \/ req[r].kind = "txn" /\ req[r].txid # 0
          /\ req[r].amount <= LargeThreshold

\* C12: a delivery failure on a session of the owner, also of a session that
\* its own connection handler unregisters while the notification is in
\* flight, is recovered inside the notifier: create_account and
\* create_transaction return success.
C12_DeliveryFailureNotSurfaced ==
    \A r \in Reqs : ReturnedAfterNotifying(r) => req[r].status = 201

\* The step in which a call of send_personal_message by the request in slot
\* r ends, by a return or by an exception.
CallEnds(r) == req[r].pc = "sending" /\ req'[r].pc # "sending"

\* The sessions that the user of the request in slot r has in the registry
\* after the step.
SessionsForAfter(r) ==
    IF req[r].user \in DOMAIN active_connections'
    THEN Range(active_connections'[req[r].user])
    ELSE {}

\* C13: when a call of send_personal_message has failed to deliver to a
\* session, then of the sessions the identity had when the call began, and
\* whose own handler has not unregistered them, each one was sent to, and at
\* the end of the call it is absent from the registry exactly if its
\* delivery failed.
C13_FailureDropsExactlyFailed ==
    [][\A r \in Reqs :
          CallEnds(r) /\ req[r].disconnected # <<>>
          => \A s \in Range(req[r].start) :
                ws[s].state \in {"open", "aborted"}
                => /\ s \in req[r].tried
                   /\ s \in Range(req[r].disconnected)
                      <=> s \notin SessionsForAfter(r)]_vars

\* C14: unregistering a session that is not in the registry is a no-op that
\* never fails: no endpoint's call of disconnect ends in an exception.
C14_DisconnectAbsentNeverFails ==
    \A s \in Sessions : ws[s].state # "error"

\* The sessions that appear in some identity's list.
Listed ==
    UNION {Range(active_connections[u]) : u \in DOMAIN active_connections}

\* C15: a session handle that appears in some identity's session list also
\* appears in the global session set.
C15_ListedIsInGlobalSet ==
    Listed \subseteq all_connections

\* C16: a session whose delivery failed during a broadcast is unregistered:
\* once the broadcast has returned it is neither in the global session set
\* nor in an identity's session list.
C16_BroadcastFailureUnregisters ==
    bc.pc = "done"
    => \A s \in bc.disconnected : s \notin all_connections /\ s \notin Listed

\* The identities that have at least one registered session.
IdentitiesWithSession ==
    {u \in Users : \E s \in Sessions :
        u \in DOMAIN active_connections /\ s \in Range(active_connections[u])}

\* C17: no identity maps to an empty session list, so users_connected of the
\* connection-stats endpoint is the number of identities with at least one
\* registered session.
C17_NoEmptyIdentityEntry ==
    /\ \A u \in DOMAIN active_connections : active_connections[u] # <<>>
    /\ GetConnectionStats.users_connected = Cardinality(IdentitiesWithSession)

\* The last session of an identity has been unregistered by its endpoint
\* while another identity has a session.
C17_Witness ==
    /\ \E s \in Sessions :
        /\ ws[s].state = "closed"
        /\ ws[s].user # 0
        /\ ws[s].user \notin DOMAIN active_connections
    /\ DOMAIN active_connections # {}

\* The positions in the inbox of session s of the notification of an event
\* for transaction id.
Received(s, event, id) ==
    {i \in 1..Len(inbox[s]) : inbox[s][i] = [event |-> event, id |-> id]}

\* The sessions that were registered for the user of the request in slot r
\* when its first notification began and are still registered, with their
\* client there.
RegisteredThroughout(r) ==
    {s \in Range(req[r].first) :
        /\ req[r].user \in DOMAIN active_connections
        /\ s \in Range(active_connections[req[r].user])
        /\ ws[s].state = "open"
        /\ ws[s].alive}

\* C18: after a successful create_transaction above the threshold, each
\* session registered for the owner has received exactly two notifications
\* for it: one transaction_created and then one large_transaction_processing.
C18_TwoNotificationsInOrder ==
    \A r \in Reqs :
        (/\ req[r].kind = "txn"
         /\ req[r].pc = "done"
         /\ req[r].status = 201
         /\ req[r].amount > LargeThreshold)
        => \A s \in RegisteredThroughout(r) :
              LET created == Received(s, "transaction_created", req[r].txid)
                  large == Received(s, "large_transaction_processing", req[r].txid)
              IN  /\ Cardinality(created) = 1
                  /\ Cardinality(large) = 1
                  /\ Min(created) < Min(large)

\* A token that does not decode, has no subject, or names no user.
InvalidToken(token) ==
    \/ ~ token.signed
    \/ token.sub = 0
    \/ token.sub \notin Users

\* C20: a websocket handshake on /ws with an invalid token is rejected: the
\* connection is closed, the session is never in the registry and it
\* receives nothing.
C20_InvalidTokenRejected ==
    \A s \in Sessions :
        ws[s].endpoint = "private" /\ InvalidToken(ws[s].token)
        => /\ ws[s].state = "rejected"
           /\ s \notin all_connections
           /\ s \notin Listed
           /\ inbox[s] = <<>>

\* A handshake with an unverifiable token for user 1 has been rejected, and a
\* session of user 1 has since received a notification.
C20_Witness ==
    \E s, t \in Sessions :
        /\ ws[s].state = "rejected"
        /\ ~ ws[s].token.signed
        /\ ws[t].user = ws[s].token.sub
        /\ \E i \in 1..Len(inbox[t]) : inbox[t][i].event = "account_created"

\* The step in which the read of the given kind in slot r is served.
Served(r, kind) == req'[r] # req[r] /\ req'[r].kind = kind

\* C21: get_account by id answers 404 when no account has the id, 403 when
\* the account belongs to another identity, and returns the account, and
\* only it, to its owner: no response carries an account of another user.
C21_GetAccountOnlyToOwner ==
    [][\A r \in Reqs :
          Served(r, "get_account")
          => LET q == req'[r]
             IN  /\ q.target \notin 1..Len(accounts)
                    => q.status = 404 /\ q.result = <<>>
                 /\ q.target \in 1..Len(accounts)
                    => IF accounts[q.target].user_id = q.user
                       THEN q.status = 200
                            /\ q.result = <<WithId(accounts, q.target)>>
                       ELSE q.status = 403 /\ q.result = <<>>
                 /\ \A i \in 1..Len(q.result) : q.result[i].user_id = q.user]_vars

\* A user has asked for the account of another user and was refused.
C21_Witness ==
    \E r \in Reqs :
        /\ req[r].kind = "get_account"
        /\ req[r].status = 403
        /\ req[r].target \in 1..Len(accounts)
        /\ accounts[req[r].target].user_id # req[r].user

\* The transaction with the given id is on the account of the user.
OnAccountOf(id, user) ==
    \E a \in 1..Len(accounts) :
        accounts[a].user_id = user /\ transactions[id].account_id = a

\* C22: get_transaction answers 404 for an unknown id, 403 when the caller
\* has no account or the transaction is on another account, and returns the
\* transaction otherwise; get_transactions lists only transactions of the
\* caller's account.
C22_TransactionsOnlyToOwner ==
    [][\A r \in Reqs :
          LET q == req'[r]
          IN  /\ Served(r, "get_transaction")
                 => /\ q.target \notin 1..Len(transactions)
                       => q.status = 404 /\ q.result = <<>>
                    /\ q.target \in 1..Len(transactions)
                       => IF OnAccountOf(q.target, q.user)
                          THEN q.status = 200
                               /\ q.result = <<WithId(transactions, q.target)>>
                          ELSE q.status = 403 /\ q.result = <<>>
              /\ Served(r, "get_transactions")
                 => \A i \in 1..Len(q.result) :
                       /\ q.result[i] = WithId(transactions, q.result[i].id)
                       /\ OnAccountOf(q.result[i].id, q.user)]_vars

\* Both users have an account, and one of them has asked for a transaction
\* on the account of the other and was refused.
C22_Witness ==
    /\ \E r \in Reqs :
        /\ req[r].kind = "get_transaction"
        /\ req[r].status = 403
        /\ req[r].target \in 1..Len(transactions)
        /\ \E a \in 1..Len(accounts) : accounts[a].user_id = req[r].user
    /\ Len(accounts) = 2

\* C23: create_transaction by an identity that has no account fails with
\* 404: it persists no transaction record, sends no notification and
\* enqueues no compliance job.
C23_NoAccountNotFound ==
    [][\A r \in Reqs :
          (/\ TxnAccepted(r)
           /\ ~ \E a \in 1..Len(accounts) : accounts[a].user_id = req'[r].user)
          => /\ req'[r].pc = "done"
             /\ req'[r].status = 404
             /\ req'[r].txid = 0
             /\ transactions' = transactions
             /\ accounts' = accounts
             /\ sent' = sent
             /\ jobs' = jobs]_vars

\* A create_transaction of a user without an account has been refused while
\* another user has an account.
C23_Witness ==
    \E r \in Reqs :
        /\ req[r].kind = "txn"
        /\ req[r].status = 404
        /\ accounts # <<>>
        /\ \A a \in 1..Len(accounts) : accounts[a].user_id # req[r].user

\* The step in which the create_account in slot r commits its row.
AcctCommitted(r) ==
    /\ req[r].kind = "acct"
    /\ req[r].pc = "commit"
    /\ req'[r].pc = "notify"

\* C24: a successful create_account yields a new account owned by the
\* caller, with balance zero and the type and currency of the request, and
\* returns it; get_my_account of an identity that has an account returns
\* the account of that identity.
C24_CreateThenGet ==
    [][\A r \in Reqs :
          /\ AcctCommitted(r)
             => LET id == Len(accounts) + 1
                IN  /\ Len(accounts') = id
                    /\ SubSeq(accounts', 1, Len(accounts)) = accounts
                    /\ accounts'[id].user_id = req[r].user
                    /\ accounts'[id].balance = 0
                    /\ accounts'[id].account_type = req[r].body.account_type
                    /\ accounts'[id].currency = req[r].body.currency
                    /\ req'[r].result = <<WithId(accounts', id)>>
          /\ (req[r].kind = "acct" /\ req'[r].pc = "done" /\ req'[r].status = 201)
             => req'[r].result = req[r].result
          /\ Served(r, "get_my_account")
             => \A a \in 1..Len(accounts) :
                   accounts[a].user_id = req'[r].user
                   => /\ req'[r].status = 200
                      /\ req'[r].result = <<WithId(accounts, a)>>]_vars

\* The second account of the table, made with a body other than that of the
\* tests, has been returned to its owner by get_my_account.
C24_Witness ==
    \E r \in Reqs :
        /\ req[r].kind = "get_my_account"
        /\ req[r].status = 200
        /\ req[r].result[1].id = 2
        /\ req[r].result[1].account_type = "checking"
        /\ req[r].result[1].currency = "EUR"
        /\ req[r].result[1].balance = 0

\* C25: a successful create_account sends exactly one account_created
\* notification to every session registered for the creating identity, and
\* a create_account refused because the account exists sends none.
C25_AccountCreatedOncePerSession ==
    \A r \in Reqs :
        (req[r].kind = "acct" /\ req[r].pc = "done")
        => /\ req[r].status = 201
              => \A s \in RegisteredThroughout(r) :
                    Cardinality(Received(s, "account_created", req[r].account)) = 1
           /\ req[r].status = 400
              => req[r].phase = "none" /\ req[r].first = <<>>

\* No two rows of the table carry the same value in the field.
Distinct(tbl, field) ==
    \A i, j \in 1..Len(tbl) : tbl[i][field] = tbl[j][field] => i = j

\* C26: no two committed transactions, on the same or on different
\* accounts, share a reference number, and no two accounts share an account
\* number.
C26_NumbersUnique ==
    /\ Distinct(transactions, "reference_number")
    /\ Distinct(accounts, "account_number")

\* A create_transaction whose generated reference number was that of a
\* committed transaction has been refused by the store.
C26_Witness ==
    \E r \in Reqs :
        /\ req[r].kind = "txn"
        /\ req[r].pc = "done"
        /\ req[r].status = 500
        /\ req[r].txid = 0
        /\ transactions # <<>>

\* C27: transactions are append-only: no step changes or deletes a
\* committed transaction record, so the transactions of every account only
\* grow.
C27_TransactionsAppendOnly ==
    [][/\ Len(transactions') >= Len(transactions)
       /\ \A i \in 1..Len(transactions) : transactions'[i] = transactions[i]]_vars

\* A withdrawal has been refused for insufficient funds, its pending record
\* discarded, while the table holds a committed transaction.
C27_Witness ==
    \E r \in Reqs :
        /\ req[r].kind = "txn"
        /\ req[r].pc = "done"
        /\ req[r].status = 400
        /\ transactions # <<>>

\* The step in which the endpoint of socket s receives a text.
TextReceived(s) == ws'[s].recv = ws[s].recv + 1

\* The inbox of socket s has grown in the step by one message of the event.
Answered(s, event) ==
    /\ Len(inbox'[s]) = Len(inbox[s]) + 1
    /\ SubSeq(inbox'[s], 1, Len(inbox[s])) = inbox[s]
    /\ inbox'[s][Len(inbox'[s])].event = event

\* C28: while the client is there, a "ping" received on /ws or on
\* /ws/public is answered with a pong, any other text with an echo that
\* contains the text on /ws and with nothing on /ws/public; the registry is
\* not changed.
C28_KeepAlive ==
    [][\A s \in Sessions :
          TextReceived(s)
          => /\ active_connections' = active_connections
             /\ all_connections' = all_connections
             /\ ws'[s].alive
                => IF ws'[s].last = "ping"
                   THEN Answered(s, "pong")
                   ELSE IF ws[s].endpoint = "private"
                   THEN /\ Answered(s, "echo")
                        /\ ws'[s].last \in Range(inbox'[s][Len(inbox'[s])].text)
                   ELSE inbox'[s] = inbox[s]]_vars

\* A client of /ws/public has sent a text other than "ping" and has received
\* nothing but the welcome; a client of /ws has received an echo.
C28_Witness ==
    \E s, t \in Sessions :
        /\ ws[s].endpoint = "public"
        /\ ws[s].last = "hello"
        /\ ws[s].alive
        /\ Len(inbox[s]) = 1
        /\ ws[t].endpoint = "private"
        /\ \E i \in 1..Len(inbox[t]) : inbox[t][i].event = "echo"

\* C29: a call of send_personal_message sends to every session that is in
\* the identity's list when the call starts and is still in it when the call
\* ends, whatever other tasks register or unregister in between.  Stated
\* for the calls in which every delivery succeeded.
C29_NoRegisteredSessionSkipped ==
    [][\A r \in Reqs :
          CallEnds(r) /\ req[r].disconnected = <<>>
          => \A s \in Range(req[r].start) :
                s \in SessionsForAfter(r) => s \in req[r].tried]_vars

\* C30: once the handler of a session that an endpoint has registered has
\* terminated, after a client disconnect or after an error at any point
\* after the registration, the session is in neither part of the registry.
C30_TerminatedSessionUnregistered ==
    \A s \in Sessions :
        ws[s].state \in {"closed", "error", "aborted"}
        => s \notin all_connections /\ s \notin Listed

\* The compliance jobs the broker holds for the transaction with id i.
JobsOf(i) == {j \in jobs : j.transaction_id = i}

\* The create_transaction that wrote the row with id i has not returned.
TxnInFlight(i) ==
    \E r \in Reqs : req[r].kind = "txn" /\ req[r].txid = i /\ req[r].pc # "done"

\* C31: a compliance job is enqueued for a transaction exactly if the
\* transaction has committed with an amount strictly above the threshold:
\* every job carries the id and the amount of a committed row above the
\* threshold, a row has at most one job, and once its request has returned
\* a committed row above the threshold has its job.
C31_JobIffLargeCommitted ==
    /\ \A j \in jobs :
          /\ j.transaction_id \in 1..Len(transactions)
          /\ j.amount = transactions[j.transaction_id].amount
          /\ j.amount > LargeThreshold
    /\ \A i \in 1..Len(transactions) :
          /\ Cardinality(JobsOf(i)) <= 1
          /\ (transactions[i].amount > LargeThreshold /\ ~ TxnInFlight(i))
             => JobsOf(i) # {}

\* The create_transaction in slot r has committed and returns in this step
\* from one of its calls of send_personal_message.
ReturnsFromNotifier(r) ==
    /\ req[r].kind = "txn"
    /\ req[r].txid # 0
    /\ req[r].pc \in {"notify", "notify_large", "sending"}
    /\ req'[r].pc = "done"

\* C32: the ledger outcome of create_transaction does not depend on the
\* session registry: whether the owner has no session, live sessions, or
\* sessions that disconnect or fail during delivery, a committed request
\* returns success from the notifier and its row and balance stay as
\* committed.
C32_OutcomeIndependentOfRegistry ==
    [][\A r \in Reqs :
          ReturnsFromNotifier(r)
          => /\ req'[r].status = 201
             /\ transactions' = transactions
             /\ accounts' = accounts]_vars

\* The envelopes and jobs that refer to a transaction.
TransactionEnvelopes ==
    {i \in 1..Len(sent) :
        sent[i].event \in {"transaction_created", "large_transaction_processing"}}

\* The request accepted in slot r is one that create_transaction refuses:
\* its caller has no account, or it withdraws more than the balance.
RefusedInput(r) ==
    LET S == {i \in 1..Len(accounts) : accounts[i].user_id = req'[r].user}
    IN  \/ S = {}
        \/ /\ req'[r].ttype = "withdrawal"
           /\ accounts[Min(S)].balance < req'[r].amount

\* C33: a notification about a transaction and a compliance job exist only
\* for a committed transaction, and a create_transaction that fails with
\* NotFound or InsufficientFunds returns at once, hands no envelope to the
\* notifier, delivers nothing and enqueues no job.
C33_NotifiedOnlyAfterCommit ==
    [][/\ \A i \in {k \in 1..Len(sent') :
                      sent'[k].event \in {"transaction_created",
                                          "large_transaction_processing"}} :
             sent'[i].id \in 1..Len(transactions')
       /\ \A j \in jobs' : j.transaction_id \in 1..Len(transactions')
       /\ \A s \in Sessions : \A k \in 1..Len(inbox'[s]) :
             inbox'[s][k].event \in {"transaction_created",
                                     "large_transaction_processing"}
             => inbox'[s][k].id \in 1..Len(transactions')
       /\ \A r \in Reqs :
             (TxnAccepted(r) /\ RefusedInput(r))
             => /\ req'[r].pc = "done"
                /\ req'[r].status \in {400, 404}
                /\ sent' = sent /\ jobs' = jobs /\ inbox' = inbox
                /\ Len(transactions') = Len(transactions)]_vars

\* A withdrawal has been refused with 400 after a transaction of the same
\* identity was committed and notified.
C33_Witness ==
    \E r \in Reqs :
        /\ req[r].kind = "txn" /\ req[r].pc = "done" /\ req[r].status = 400
        /\ Len(transactions) = 1
        /\ transactions[1].account_id = req[r].account
        /\ Cardinality(TransactionEnvelopes) = 1

\* The events of the personal notifications.
PersonalEvents ==
    {"account_created", "transaction_created", "large_transaction_processing"}

\* C34: a personal notification is received only by sessions registered
\* under the identity it was sent for: every such message in the inbox of
\* a session is an envelope handed to send_personal_message for the
\* identity of that session, so no session of another identity and no
\* public session receives one.
C34_PersonalOnlyToOwnSessions ==
    \A s \in Sessions : \A k \in 1..Len(inbox[s]) :
        inbox[s][k].event \in PersonalEvents
        => /\ ws[s].endpoint = "private"
           /\ \E i \in 1..Len(sent) :
                 /\ sent[i].event = inbox[s][k].event
                 /\ sent[i].id = inbox[s][k].id
                 /\ sent[i].user = ws[s].user

\* A session of the owner has received a transaction notification while a
\* live session of another identity, or a public one, was registered, and
\* the request has returned.
C34_Witness ==
    \E s, t \in Sessions :
        /\ ws[s].user = 1 /\ ws[t].user # 1
        /\ ws[t].state = "open" /\ ws[t].alive /\ t \in all_connections
        /\ \E k \in 1..Len(inbox[s]) : inbox[s][k].event = "transaction_created"
        /\ \E r \in Reqs : req[r].kind = "txn" /\ req[r].pc = "done"
                           /\ req[r].status = 201

\* The transaction history of the account with the id in a table: its rows
\* with their ids.
History(tbl, id) ==
    {<<i, tbl[i]>> : i \in {k \in 1..Len(tbl) : tbl[k].account_id = id}}

\* C35: every step of a create_transaction leaves the accounts of the
\* other identities as they are, their balance and their transaction
\* history, whether the call succeeds or fails.
C35_OtherAccountsUntouched ==
    [][\A r \in Reqs :
          (req'[r] # req[r] /\ req'[r].kind = "txn")
          => \A i \in 1..Len(accounts) :
                accounts[i].user_id # req'[r].user
                => /\ accounts'[i] = accounts[i]
                   /\ History(transactions', i) = History(transactions, i)]_vars

\* Both identities have an account, one has deposited and the request has
\* returned, and the other's account is as it was created.
C35_Witness ==
    \E r \in Reqs : \E i, j \in 1..Len(accounts) :
        /\ req[r].kind = "txn" /\ req[r].pc = "done" /\ req[r].status = 201
        /\ req[r].ttype = "deposit" /\ req[r].amount > 0
        /\ accounts[i].user_id = req[r].user /\ accounts[i].balance = req[r].amount
        /\ accounts[j].user_id # req[r].user
        /\ accounts[j].balance = 0 /\ History(transactions, j) = {}

\* The request accepted in slot r is a withdrawal of at most the balance
\* of its caller's account.
CoveredWithdrawal(r) ==
    LET S == {i \in 1..Len(accounts) : accounts[i].user_id = req'[r].user}
    IN  /\ TxnAccepted(r)
        /\ req'[r].ttype = "withdrawal"
        /\ S # {}
        /\ req'[r].amount <= accounts[Min(S)].balance

\* The withdrawal in slot r leaves its commit in this step.
WithdrawalCommits(r) ==
    /\ req[r].kind = "txn" /\ req[r].ttype = "withdrawal"
    /\ req[r].pc = "commit" /\ req'[r].pc # "commit"

RECURSIVE SessionCountSum(_)
SessionCountSum(S) ==
    IF S = {} THEN 0
    ELSE LET u == CHOOSE x \in S : TRUE
         IN  Len(active_connections[u]) + SessionCountSum(S \ {u})

\* C37: in every reachable state of the registry the total_connections of
\* the connection statistics is at least the sum of the per-identity
\* session counts, and so at least users_connected.
C37_TotalCoversIdentityCounts ==
    LET stats == GetConnectionStats
    IN  /\ stats.total_connections >= SessionCountSum(DOMAIN active_connections)
        /\ stats.total_connections >= stats.users_connected

====
